---- MODULE Spec2Model ----
(***************************************************************************)
(* Product Segmentation Engine (leviton-agent backend).                    *)
(*                                                                         *)
(* Three parts of the program are modelled, each with its own              *)
(* specification over the shared variable list:                            *)
(*   SpecRun     - DatabaseProductSegmentationService.create_run and       *)
(*                 execute_run over the Supabase repositories and the      *)
(*                 ProductSegmentationLLMClient;                           *)
(*   SpecLimiter - RateLimiter.acquire/release and LLMManager.safe_call    *)
(*                 for several concurrent callers;                         *)
(*   SpecStage   - BaseStage.execute with its split-and-retry recursion.   *)
(***************************************************************************)
EXTENDS Integers, Sequences, FiniteSets, TLC

(***************************************************************************)
(* Bounds of the model.                                                    *)
(***************************************************************************)
\* execute_run invocations per behaviour of the re-execution specification
MaxExecutions == 2
\* products per extraction prompt, scaled down from the configured 40
ExtractBatchSize == 1
\* assignments per refinement prompt, scaled down from the configured 40
RefineBatchSize == 2
\* store operations that fail per behaviour
MaxFaults == 1
\* defective extraction responses per behaviour
MaxDefects == 1

\* attempts of ProductSegmentationLLMClient.refine_assignments
MAX_RETRIES == 3

VARIABLES
    run,              \* the segmentation_runs row: status, total, processed
    run_products,     \* run_products rows of the run (product ids, in order)
    tax_rows,         \* product_taxonomies rows
    seg_rows,         \* product_segments rows (initial assignments)
    refined_rows,     \* refined_product_segments rows
    interaction_rows, \* llm_interaction_index rows
    blobs,            \* interaction files written by store_interaction
    ex,               \* locals and position of the running execute_run
    llm_calls,        \* LLM calls issued so far by the segmentation client
    executions_left,  \* execute_run invocations still to be started
    fault_budget,     \* store operations that may still fail
    defect_budget,    \* extraction responses that may still be defective
    shuffle_kind      \* the permutation the seeded shuffle applies

runvars == <<run, run_products, tax_rows, seg_rows, refined_rows,
             interaction_rows, blobs, ex, llm_calls, executions_left,
             fault_budget, defect_budget, shuffle_kind>>

VARIABLES
    now,              \* wall clock, in ticks
    req_times,        \* RateLimiter._req_times: <<timestamp, amount>> entries
    in_tok_times,     \* RateLimiter._in_tok_times
    out_tok_times,    \* RateLimiter._out_tok_times
    sem,              \* free permits of RateLimiter._sem
    llm_sem,          \* free permits of the global _LLM_SEMAPHORE
    tasks             \* the concurrent safe_call invocations

limvars == <<now, req_times, in_tok_times, out_tok_times, sem, llm_sem, tasks>>

VARIABLES
    nodes,            \* position of each _run_recursive invocation
    calls_made,       \* BaseStage.execute's calls_made counter
    calls_issued,     \* LLM calls the execute has started
    prompts           \* prompts each _run_recursive invocation has sent

stagevars == <<nodes, calls_made, calls_issued, prompts>>

VARIABLES
    cache,            \* LLMCache: the response file stored under each key
    cl,               \* the client call in progress (refine or extraction)
    provider_calls,   \* provider calls the client has made
    invocations_left  \* client calls still to be started

clientvars == <<cache, cl, provider_calls, invocations_left>>

VARIABLES
    bat,              \* one call of the batching utilities: input and result
    cons,             \* one consolidation call of the client: input, halves,
                      \* response and verdict
    val               \* one call of the refinement validator: input, verdict

batchvars == <<bat, cons, val>>

vars == <<runvars, limvars, stagevars, clientvars, batchvars>>

(***************************************************************************)
(* Sequence helpers.                                                       *)
(***************************************************************************)
RECURSIVE SortedSeq(_)
SortedSeq(S) ==
    IF S = {} THEN <<>>
    ELSE LET m == CHOOSE x \in S : \A y \in S : x <= y
         IN <<m>> \o SortedSeq(S \ {m})

RECURSIVE Flatten(_)
Flatten(ss) == IF ss = <<>> THEN <<>> ELSE Head(ss) \o Flatten(Tail(ss))

RECURSIVE SumSeq(_)
SumSeq(s) == IF s = <<>> THEN 0 ELSE Head(s) + SumSeq(Tail(s))

Range(s) == {s[i] : i \in DOMAIN s}

(***************************************************************************)
(* utils/batching.py                                                       *)
(***************************************************************************)
\* rounding that sends every half upwards
PyRound_half_up(n, b) == (2 * n + b) \div (2 * b)

\* Python's round() of n / b: round half to even
PyRound(n, b) ==
    LET q == n \div b
        r == n % b
    IN IF 2 * r < b THEN q
       ELSE IF 2 * r > b THEN q + 1
       ELSE IF q % 2 = 0 THEN q ELSE q + 1

calculate_optimal_batch_sizes(total_items, target_batch_size) ==
    IF total_items <= target_batch_size THEN <<total_items>>
    ELSE LET r == PyRound(total_items, target_batch_size)
             num_batches == IF r > 1 THEN r ELSE 1
             base_size == total_items \div num_batches
             remainder == total_items % num_batches
         IN [i \in 1..num_batches |->
                IF i <= remainder THEN base_size + 1 ELSE base_size]

\* numpy's RandomState(seed).shuffle: one fixed permutation per length; the
\* model draws it once (shuffle_kind) and applies it on every call.
ShuffleKinds == {"reverse", "rotate"}

Shuffle(data) ==
    LET n == Len(data)
    IN CASE shuffle_kind = "identity" -> data
         [] shuffle_kind = "reverse" -> [i \in 1..n |-> data[n + 1 - i]]
         [] shuffle_kind = "rotate" -> [i \in 1..n |-> data[(i % n) + 1]]

make_batches(data, target_batch_size) ==
    IF data = <<>> THEN <<>>
    ELSE LET sizes == calculate_optimal_batch_sizes(Len(data), target_batch_size)
             shuffled == Shuffle(data)
             cursor(i) == SumSeq(SubSeq(sizes, 1, i - 1))
         IN [i \in 1..Len(sizes) |->
                SubSeq(shuffled, cursor(i) + 1, cursor(i) + sizes[i])]

\* Inputs of one call of the batching utilities.  An item is a Python int or
\* str, written [type, repr]; repr is the text str() gives for it.
MaxItems == 12
MaxTarget == 5
MaxDataLen == 3

BatchItems ==
    {[type |-> "int", repr |-> "1"], [type |-> "int", repr |-> "2"],
     [type |-> "str", repr |-> "1"]}

BatchInputs == UNION {[1..n -> BatchItems] : n \in 1..MaxDataLen}

\* lines 115 and 127: np.array(data) ... .tolist().  numpy gives the array
\* one dtype: a list of ints stays ints, a list of strs stays strs, and a
\* list that mixes ints and strs becomes an array of strs (each int replaced
\* by its text).
NpArray(data) ==
    IF \E i, j \in DOMAIN data : data[i].type # data[j].type
    THEN [i \in DOMAIN data |-> [type |-> "str", repr |-> data[i].repr]]
    ELSE data

\* client calls one behaviour of the client model starts
MaxInvocations == 2

\* a refinement response: k = 0 is the empty object {}, k >= 1 the single
\* entry {P_(k-1): S_(s-1)}, k = -1 a text that holds no JSON object
NoResponse == [k |-> -2, s |-> 1]
NoPrompt == [segments |-> <<>>, issues |-> <<>>]

IdleClient ==
    [pc |-> "idle", op |-> "none", products |-> <<>>, segments |-> <<>>,
     prompt |-> NoPrompt, attempt |-> 0, response |-> NoResponse,
     extraction |-> <<>>, result |-> <<>>, from_cache |-> FALSE,
     fallback |-> FALSE, invalid |-> 0]

\* ProductSegmentationLLMClient.__init__ with an empty LLMCache directory
ClientIdle ==
    /\ cache = {}
    /\ cl = IdleClient
    /\ provider_calls = 0
    /\ invocations_left = 0

IdleVal ==
    [pc |-> "idle", text |-> <<>>, batch_product_ids |-> {},
     valid_subcategory_ids |-> {}, is_valid |-> FALSE, result |-> <<>>]

IdleCons ==
    [pc |-> "idle", taxonomies |-> <<>>, taxonomy_a |-> <<>>,
     taxonomy_b |-> <<>>, response |-> <<>>, is_valid |-> FALSE]

BatchIdle ==
    /\ bat = [pc |-> "idle", total_items |-> 0, target_batch_size |-> 0,
              data |-> <<>>, sizes |-> <<>>, batches |-> <<>>]
    /\ cons = IdleCons
    /\ val = IdleVal

(***************************************************************************)
(* llm/product_segmentation_client.py : extraction                         *)
(*                                                                         *)
(* An extraction response is a JSON object {category: {definition, ids}}.  *)
(* It is drawn as a total assignment f of the positional indices 0..n-1 to *)
(* categories plus one defect: an index missing, an index listed under two *)
(* categories, or an index outside 0..n-1.  Categories appear in the key   *)
(* order of Cats; a category is present when it lists at least one id.     *)
(***************************************************************************)
Cats == <<"A", "B", "OUT_OF_SCOPE">>
CatNames == Range(Cats)
Defects == {"none", "missing", "duplicate", "unknown"}

ExtractionResponses(n) ==
    [f : [0..(n - 1) -> CatNames], defect : Defects]

ResponseIds(resp, c) ==
    LET f == resp.f
        n == Cardinality(DOMAIN f)
        base == {i \in DOMAIN f : f[i] = c}
        other == IF f[0] = "A" THEN "B" ELSE "A"
    IN CASE resp.defect = "none" -> base
         [] resp.defect = "missing" -> base \ {0}
         [] resp.defect = "duplicate" ->
                IF c = other THEN base \cup {0} ELSE base
         [] resp.defect = "unknown" ->
                IF c = f[0] THEN base \cup {n} ELSE base

\* segment_products: the taxonomies (category names) and the segments built
\* from a parsed response.  OUT_OF_SCOPE is skipped; a segment's product_id
\* is the id listed in the response and its taxonomy_id the 1-based position
\* of its category among the taxonomies.  No completeness check is made.
segment_products_taxonomies(resp) ==
    SelectSeq(Cats, LAMBDA c : c # "OUT_OF_SCOPE" /\ ResponseIds(resp, c) # {})

segment_products_segments(resp) ==
    LET tax == segment_products_taxonomies(resp)
        ids(k) == SortedSeq(ResponseIds(resp, tax[k]))
    IN Flatten([k \in 1..Len(tax) |->
                  [j \in 1..Len(ids(k)) |->
                      [product_id |-> ids(k)[j], taxonomy_id |-> k]]])

(***************************************************************************)
(* services/db_product_segmentation.py : execute_run, one extraction batch *)
(***************************************************************************)
\* rows the taxonomy repository returns for an insert of `names`
InsertedTaxonomies(names) ==
    [k \in 1..Len(names) |->
        [id |-> Len(tax_rows) + k, category_name |-> names[k], run_id |-> "R1"]]

\* taxonomy_name_to_id (lines 230-246): the ids of the returned rows; the
\* mapping stays empty when the repository returned no row
TaxonomyNameToId(inserted, names) ==
    IF inserted # <<>>
    THEN [name \in {inserted[k].category_name : k \in DOMAIN inserted} |->
            LET k == CHOOSE j \in DOMAIN inserted :
                        /\ inserted[j].category_name = name
                        /\ \A i \in DOMAIN inserted :
                              inserted[i].category_name = name => i <= j
            IN inserted[k].id]
    ELSE [name \in {} |-> 0]

\* lines 259-269: resolve each segment's category name from its 1-based
\* taxonomy_id and replace the id by the database id when there is one
RemapSegments(segments, batch_tax_list, name_to_id) ==
    [j \in DOMAIN segments |->
        LET seg == segments[j]
            idx == seg.taxonomy_id - 1
            cat_name == IF 0 <= idx /\ idx < Len(batch_tax_list)
                        THEN batch_tax_list[idx + 1] ELSE "none"
        IN [product_id |-> seg.product_id,
            taxonomy_id |-> IF cat_name \in DOMAIN name_to_id
                            THEN name_to_id[cat_name] ELSE seg.taxonomy_id,
            category_name |-> cat_name]]

\* LLMStorageService.generate_interaction_path: the file name ends in a
\* timestamp and a random id
generate_interaction_path(interaction_type, batch_id) ==
    <<interaction_type, batch_id, "attempt_1", "timestamp_uuid">>

\* the file_path the service writes into the index row (lines 222, 414)
IndexFilePath(interaction_type, batch_id) ==
    <<interaction_type, batch_id, "attempt_1">>

\* the file store_interaction writes and the index row that follows it
Blob(interaction_type, batch_id) ==
    [type |-> interaction_type, batch_id |-> batch_id,
     path |-> generate_interaction_path(interaction_type, batch_id)]

IndexRow(interaction_type, batch_id) ==
    [type |-> interaction_type, batch_id |-> batch_id,
     file_path |-> IndexFilePath(interaction_type, batch_id)]

SegmentRows(segments) ==
    [j \in DOMAIN segments |->
        [run_id |-> "R1", product_id |-> segments[j].product_id,
         taxonomy_id |-> segments[j].taxonomy_id]]

(***************************************************************************)
(* Sizes of the rate limiter and of the stage engine.  The limits are the  *)
(* constructor arguments of RateLimiter and the cfg values safe_call and   *)
(* BaseStage.execute read, scaled down.                                    *)
(***************************************************************************)
\* concurrent safe_call invocations
NumTasks == 2
\* last tick of the clock
MaxTime == 2
\* length of the sliding window in ticks (60 seconds in the code)
WindowTicks == 1
\* max_requests_per_minute
MaxRpm == 2
\* max_input_tokens_per_minute
MaxInTok == 3
\* max_output_tokens_per_minute
MaxOutTok == 4
\* max_concurrent_requests
MaxConcurrent == 1
\* model_max_tokens
ModelMaxTokens == 4
\* cfg.MAX_CONCURRENT_LLM_CALLS
MaxLlmCalls == 2
\* cfg.MAX_ATTEMPTS_PER_CALL
MaxAttempts == 2
\* length of the stage's input sequence
SeqLen == 3
\* cfg.MAX_LLM_CALLS_PER_EXECUTE
CallBudget == 5

Tasks == 1..NumTasks

IdleTask ==
    [pc |-> "idle", attempt |-> 0, est_in |-> 0, validate |-> FALSE,
     builder |-> FALSE, holds |-> 0, prompt |-> "none", failure |-> "none"]

\* RateLimiter.__init__ (lines 57-64) and the lazily created global gate
LimiterIdle ==
    /\ now = 0
    /\ req_times = <<>>
    /\ in_tok_times = <<>>
    /\ out_tok_times = <<>>
    /\ sem = MaxConcurrent
    /\ llm_sem = MaxLlmCalls
    /\ tasks = [p \in Tasks |-> IdleTask]

\* the invocations of _run_recursive: one per slice <<lo, hi>> of the input
Nodes == {n \in (1..SeqLen) \X (1..SeqLen) : n[1] <= n[2]}

\* BaseStage.execute, lines 197-198
StageIdle ==
    /\ nodes = [n \in Nodes |-> "none"]
    /\ calls_made = 0
    /\ calls_issued = 0
    /\ prompts = [n \in Nodes |-> <<>>]

(***************************************************************************)
(* The service: create_run and the steps of execute_run.  Every repository *)
(* call takes an outcome `ok`: the Supabase repositories catch a store     *)
(* error, log it and return False / [] / None, and the service does not    *)
(* look at what they return (only the taxonomy rows are used).             *)
(***************************************************************************)
ProductIdLists == {<<0>>, <<7, 8>>}

IdleEx ==
    [pc |-> "idle", batches |-> <<>>, batch_idx |-> 0,
     result_tax |-> <<>>, result_segs |-> <<>>,
     batch_taxonomies |-> <<>>, all_segments |-> <<>>,
     consolidated |-> <<>>, ref_batches |-> <<>>, ref_idx |-> 0,
     ref_attempt |-> 0, refined |-> <<>>,
     batches_persisted |-> 0, consolidated_persisted |-> FALSE,
     consolidated_ids |-> {},
     exc |-> "none", outcome |-> "none", store_fault |-> FALSE]

RunInit ==
    /\ run = [status |-> "none", total_products |-> 0, processed_products |-> 0]
    /\ run_products = <<>>
    /\ tax_rows = <<>>
    /\ seg_rows = <<>>
    /\ refined_rows = <<>>
    /\ interaction_rows = <<>>
    /\ blobs = <<>>
    /\ ex = IdleEx
    /\ llm_calls = 0
    /\ executions_left = 1
    /\ fault_budget = MaxFaults
    /\ defect_budget = MaxDefects
    /\ shuffle_kind \in ShuffleKinds

\* the store refuses the operations whose outcome in `oks` is FALSE
StoreFaults(oks) ==
    LET n == Cardinality({i \in DOMAIN oks : ~oks[i]})
    IN /\ n <= fault_budget
       /\ fault_budget' = fault_budget - n

\* create_run: SegmentationRunCreate defaults status to RUNNING and
\* processed_products to 0; both inserts may be refused by the store.
create_run(product_ids, okRun, okProducts) ==
    /\ run.status = "none"
    /\ StoreFaults(<<okRun, okProducts>>)
    /\ run_products = <<>>
    /\ ex.pc = "idle"
    /\ ex.outcome = "none"
    /\ run' = IF okRun
              THEN [status |-> "running", total_products |-> Len(product_ids),
                    processed_products |-> 0]
              ELSE run
    /\ run_products' = IF okProducts THEN product_ids ELSE run_products
    /\ UNCHANGED <<tax_rows, seg_rows, refined_rows, interaction_rows, blobs,
                   ex, llm_calls, executions_left, defect_budget,
                   shuffle_kind, limvars, stagevars, clientvars, batchvars>>

\* SegmentationRunRepository.update_status: updates the row with this id;
\* no row, or a store error, and nothing is written (returns False).
update_status(status, ok) ==
    IF ok /\ run.status # "none" THEN [run EXCEPT !.status = status] ELSE run

\* SegmentationRunRepository.update_progress
update_progress(processed, total, ok) ==
    IF ok /\ run.status # "none"
    THEN [run EXCEPT !.processed_products = processed, !.total_products = total]
    ELSE run

Raise(e, kind) == [e EXCEPT !.pc = "handler", !.exc = kind]

\* lines 180-201: look the run and its products up, batch them and send the
\* first batch to the LLM client
execute_run_start(okRun, okProducts) ==
    /\ ex.pc = "idle"
    /\ StoreFaults(<<okRun, okProducts>>)
    /\ executions_left > 0
    /\ executions_left' = executions_left - 1
    /\ LET found == okRun /\ run.status # "none"
           products == IF okProducts THEN run_products ELSE <<>>
           e0 == [IdleEx EXCEPT !.outcome = "running"]
       IN IF ~found THEN
              /\ ex' = Raise(e0, "run_not_found")
              /\ llm_calls' = llm_calls
          ELSE IF products = <<>> THEN
              /\ ex' = Raise(e0, "no_products")
              /\ llm_calls' = llm_calls
          ELSE
              /\ ex' = [e0 EXCEPT !.pc = "segment_products",
                                  !.batches = make_batches(products, ExtractBatchSize),
                                  !.batch_idx = 1]
              /\ llm_calls' = llm_calls + 1
    /\ UNCHANGED <<run, run_products, tax_rows, seg_rows, refined_rows,
                   interaction_rows, blobs, defect_budget, shuffle_kind, limvars, stagevars, clientvars, batchvars>>

\* segment_products returns for the current batch (lines 198-201)
segment_products_return(resp) ==
    /\ ex.pc = "segment_products"
    /\ resp.defect # "none" => defect_budget > 0
    /\ defect_budget' = IF resp.defect # "none" THEN defect_budget - 1
                        ELSE defect_budget
    /\ ex' = [ex EXCEPT !.pc = "store_segmentation",
                        !.result_tax = segment_products_taxonomies(resp),
                        !.result_segs = segment_products_segments(resp)]
    /\ UNCHANGED <<run, run_products, tax_rows, seg_rows, refined_rows,
                   interaction_rows, blobs, llm_calls, executions_left,
                   fault_budget, shuffle_kind, limvars, stagevars, clientvars, batchvars>>

\* the LLM call fails (LLMCallError) or its text is no JSON object (ValueError)
segment_products_raise ==
    /\ ex.pc = "segment_products"
    /\ ex' = Raise(ex, "extraction_failed")
    /\ UNCHANGED <<run, run_products, tax_rows, seg_rows, refined_rows,
                   interaction_rows, blobs, llm_calls, executions_left, fault_budget,
                   defect_budget, shuffle_kind, limvars, stagevars, clientvars, batchvars>>

\* lines 206-225: store_interaction raises when the file cannot be written;
\* then the index row is inserted
store_segmentation(okBlob, okIndex) ==
    /\ ex.pc = "store_segmentation"
    /\ StoreFaults(<<okBlob, okBlob => okIndex>>)
    /\ LET blob == Blob("segmentation", ex.batch_idx)
           row == IndexRow("segmentation", ex.batch_idx)
       IN IF ~okBlob THEN
              /\ ex' = Raise(ex, "storage_failed")
              /\ UNCHANGED <<blobs, interaction_rows>>
          ELSE
              /\ blobs' = Append(blobs, blob)
              /\ interaction_rows' =
                    IF okIndex THEN Append(interaction_rows, row)
                    ELSE interaction_rows
              /\ ex' = [ex EXCEPT !.pc = "persist_taxonomies",
                                  !.store_fault = @ \/ ~okIndex]
    /\ UNCHANGED <<run, run_products, tax_rows, seg_rows, refined_rows,
                   llm_calls, executions_left, defect_budget,
                   shuffle_kind, limvars, stagevars, clientvars, batchvars>>

\* lines 230-269: persist the batch's taxonomies, build taxonomy_name_to_id
\* from the returned rows and rewrite the segments' taxonomy ids
persist_taxonomies(ok) ==
    /\ ex.pc = "persist_taxonomies"
    /\ StoreFaults(<<ok>>)
    /\ LET names == ex.result_tax
           inserted == IF ok THEN InsertedTaxonomies(names) ELSE <<>>
           name_to_id == TaxonomyNameToId(inserted, names)
       IN /\ names = <<>> => ok
          /\ tax_rows' = tax_rows \o inserted
          /\ ex' = [ex EXCEPT
                !.pc = "persist_segments",
                !.batch_taxonomies = @ \o names,
                !.result_segs = RemapSegments(@, names, name_to_id),
                !.store_fault = @ \/ (names # <<>> /\ ~ok)]
    /\ UNCHANGED <<run, run_products, seg_rows, refined_rows, interaction_rows,
                   blobs, llm_calls, executions_left, defect_budget,
                   shuffle_kind, limvars, stagevars, clientvars, batchvars>>

\* lines 270-280: insert the batch's segments
persist_segments(ok) ==
    /\ ex.pc = "persist_segments"
    /\ StoreFaults(<<ok>>)
    /\ ex.result_segs = <<>> => ok
    /\ seg_rows' = IF ok THEN seg_rows \o SegmentRows(ex.result_segs) ELSE seg_rows
    /\ ex' = [ex EXCEPT !.pc = "update_progress",
                        !.batches_persisted = ex.batch_idx,
                        !.all_segments = @ \o ex.result_segs,
                        !.store_fault = @ \/ (ex.result_segs # <<>> /\ ~ok)]
    /\ UNCHANGED <<run, run_products, tax_rows, refined_rows, interaction_rows,
                   blobs, llm_calls, executions_left, defect_budget,
                   shuffle_kind, limvars, stagevars, clientvars, batchvars>>

(***************************************************************************)
(* llm/product_segmentation_client.py : refine_assignments                 *)
(***************************************************************************)
\* line 242-246: a segment without category_name takes the name of the
\* consolidated taxonomy at its 1-based taxonomy_id, when that is in range
WithCategoryNames(segments, taxonomies) ==
    [j \in DOMAIN segments |->
        LET s == segments[j]
        IN IF s.category_name = "none"
              /\ 1 <= s.taxonomy_id /\ s.taxonomy_id <= Len(taxonomies)
           THEN [s EXCEPT !.category_name = taxonomies[s.taxonomy_id]]
           ELSE s]

\* refinement.build_products_section raises ValueError for a product whose
\* category name is not a consolidated category
ProductsSectionRaises(segments, taxonomies) ==
    \E j \in DOMAIN segments : segments[j].category_name \notin Range(taxonomies)

\* A valid refinement response {P_i: S_j}: empty (k = 0) or one entry that
\* moves P_(k-1) to S_(s-1).  pos is the place the new category takes in the
\* iteration order of the set of the batch's category names.
RefinementResponses(batch, taxonomies) ==
    {[k |-> 0, s |-> 1, pos |-> 1]} \cup
    [k : 1..Len(batch), s : 1..Len(taxonomies),
     pos : 1..Cardinality({batch[j].category_name : j \in DOMAIN batch})]

\* _apply_reassignments (lines 545-577)
apply_reassignments(segments, r, taxonomies) ==
    [j \in DOMAIN segments |->
        LET seg == segments[j]
            \* the first P_i whose product id is this segment's product id
            re_key == CHOOSE i \in DOMAIN segments :
                         /\ segments[i].product_id = seg.product_id
                         /\ \A h \in DOMAIN segments :
                               segments[h].product_id = seg.product_id => i <= h
            new_cat_name == taxonomies[r.s]
            names == {segments[i].category_name : i \in DOMAIN segments}
        IN IF r.k # 0 /\ re_key = r.k
           THEN [product_id |-> seg.product_id,
                 taxonomy_id |-> IF new_cat_name \in names THEN r.pos
                                 ELSE seg.taxonomy_id,
                 category_name |-> new_cat_name]
           ELSE seg]

(***************************************************************************)
(* execute_run, continued                                                  *)
(***************************************************************************)
\* categories a consolidation response may keep: a non-empty list of names
ConsolidationResults == {<<"A">>, <<"B">>, <<"A", "B">>}

\* _consolidate_taxonomies up to its first await: zero or one taxonomy is
\* passed through, more are sent to the LLM
StartConsolidation(e) ==
    IF Len(e.batch_taxonomies) <= 1
    THEN [e EXCEPT !.pc = "persist_consolidated",
                   !.consolidated = e.batch_taxonomies]
    ELSE [e EXCEPT !.pc = "consolidate_taxonomy"]

\* the client's refine_assignments for batch idx up to its first LLM call
StartRefineBatch(e, idx) ==
    LET batch == WithCategoryNames(e.ref_batches[idx], e.consolidated)
    IN IF ProductsSectionRaises(batch, e.consolidated)
       THEN Raise([e EXCEPT !.ref_idx = idx], "refinement_failed")
       ELSE [e EXCEPT !.pc = "refine_assignments", !.ref_idx = idx,
                      !.ref_attempt = 1,
                      !.ref_batches = [@ EXCEPT ![idx] = batch]]

\* _refine_assignments (lines 375-395) up to the first await
StartRefinement(e) ==
    IF e.all_segments = <<>> \/ e.consolidated = <<>>
    THEN [e EXCEPT !.pc = "complete", !.refined = <<>>]
    ELSE StartRefineBatch(
             [e EXCEPT !.ref_batches = make_batches(e.all_segments, RefineBatchSize),
                       !.refined = <<>>], 1)

IssuesCall(e) == e.pc \in {"segment_products", "consolidate_taxonomy", "refine_assignments"}

\* a loop that leaves one batch early
MoreBatches_stops_early(e) == e.batch_idx + 1 < Len(e.batches)

\* line 198: the for loop over the extraction batches has another batch
MoreBatches(e) == e.batch_idx < Len(e.batches)

\* lines 284-294: write the progress, then the next batch or consolidation
update_progress_step(ok) ==
    /\ ex.pc = "update_progress"
    /\ StoreFaults(<<ok>>)
    /\ LET processed == SumSeq([i \in 1..ex.batch_idx |-> Len(ex.batches[i])])
           total == SumSeq([i \in DOMAIN ex.batches |-> Len(ex.batches[i])])
           e1 == IF MoreBatches(ex)
                 THEN [ex EXCEPT !.pc = "segment_products", !.batch_idx = @ + 1,
                                 !.result_tax = <<>>, !.result_segs = <<>>]
                 ELSE StartConsolidation([ex EXCEPT !.result_tax = <<>>,
                                                    !.result_segs = <<>>])
       IN /\ run' = update_progress(processed, total, ok)
          /\ ex' = e1
          /\ llm_calls' = IF IssuesCall(e1) THEN llm_calls + 1 ELSE llm_calls
    /\ UNCHANGED <<run_products, tax_rows, seg_rows, refined_rows,
                   interaction_rows, blobs, executions_left, defect_budget,
                   shuffle_kind, limvars, stagevars, clientvars, batchvars>>

\* consolidate_taxonomy returns a validated merge
consolidate_taxonomy_return(names) ==
    /\ ex.pc = "consolidate_taxonomy"
    /\ ex' = [ex EXCEPT !.pc = "store_consolidation", !.result_tax = names]
    /\ UNCHANGED <<run, run_products, tax_rows, seg_rows, refined_rows,
                   interaction_rows, blobs, llm_calls, executions_left, fault_budget,
                   defect_budget, shuffle_kind, limvars, stagevars, clientvars, batchvars>>

\* the LLM call fails, or the response fails validation (ValueError)
consolidate_taxonomy_raise ==
    /\ ex.pc = "consolidate_taxonomy"
    /\ ex' = Raise(ex, "consolidation_failed")
    /\ UNCHANGED <<run, run_products, tax_rows, seg_rows, refined_rows,
                   interaction_rows, blobs, llm_calls, executions_left, fault_budget,
                   defect_budget, shuffle_kind, limvars, stagevars, clientvars, batchvars>>

\* lines 366-373
store_consolidation(okBlob) ==
    /\ ex.pc = "store_consolidation"
    /\ StoreFaults(<<okBlob>>)
    /\ IF ~okBlob THEN
           /\ ex' = Raise(ex, "storage_failed")
           /\ blobs' = blobs
       ELSE
           /\ blobs' = Append(blobs, Blob("consolidate_taxonomy", 0))
           /\ ex' = [ex EXCEPT !.pc = "persist_consolidated",
                               !.consolidated = ex.result_tax,
                               !.result_tax = <<>>]
    /\ UNCHANGED <<run, run_products, tax_rows, seg_rows, refined_rows,
                   interaction_rows, llm_calls, executions_left, defect_budget,
                   shuffle_kind, limvars, stagevars, clientvars, batchvars>>

\* lines 297-315: insert the consolidated taxonomies, then start refinement
persist_consolidated(ok) ==
    /\ ex.pc = "persist_consolidated"
    /\ StoreFaults(<<ok>>)
    /\ LET inserted == IF ok THEN InsertedTaxonomies(ex.consolidated) ELSE <<>>
           e1 == StartRefinement(
                    [ex EXCEPT !.consolidated_persisted = TRUE,
                               \* what line 307 returns (and the code drops)
                               !.consolidated_ids =
                                   {inserted[k].id : k \in DOMAIN inserted},
                               !.store_fault = @ \/ (ex.consolidated # <<>> /\ ~ok)])
       IN /\ tax_rows' = tax_rows \o inserted
          /\ ex' = e1
          /\ llm_calls' = IF IssuesCall(e1) THEN llm_calls + 1 ELSE llm_calls
    /\ UNCHANGED <<run, run_products, seg_rows, refined_rows, interaction_rows,
                   blobs, executions_left, defect_budget,
                   shuffle_kind, limvars, stagevars, clientvars, batchvars>>

\* refine_assignments, lines 274-290: a valid response is applied
refine_assignments_valid(r) ==
    /\ ex.pc = "refine_assignments"
    /\ ex' = [ex EXCEPT
            !.pc = "store_refinement",
            !.result_segs = apply_reassignments(ex.ref_batches[ex.ref_idx], r,
                                                ex.consolidated)]
    /\ UNCHANGED <<run, run_products, tax_rows, seg_rows, refined_rows,
                   interaction_rows, blobs, llm_calls, executions_left, fault_budget,
                   defect_budget, shuffle_kind, limvars, stagevars, clientvars, batchvars>>

\* lines 292-309: an invalid response is retried; after the last attempt the
\* original segments are returned
refine_assignments_invalid ==
    /\ ex.pc = "refine_assignments"
    /\ IF ex.ref_attempt < MAX_RETRIES THEN
           /\ ex' = [ex EXCEPT !.ref_attempt = @ + 1]
           /\ llm_calls' = llm_calls + 1
       ELSE
           /\ ex' = [ex EXCEPT !.pc = "store_refinement",
                               !.result_segs = ex.ref_batches[ex.ref_idx]]
           /\ llm_calls' = llm_calls
    /\ UNCHANGED <<run, run_products, tax_rows, seg_rows, refined_rows,
                   interaction_rows, blobs, executions_left, fault_budget,
                   defect_budget, shuffle_kind, limvars, stagevars, clientvars, batchvars>>

\* lines 302-305: an exception of the LLM call is retried and re-raised on
\* the last attempt
refine_assignments_error ==
    /\ ex.pc = "refine_assignments"
    /\ IF ex.ref_attempt < MAX_RETRIES THEN
           /\ ex' = [ex EXCEPT !.ref_attempt = @ + 1]
           /\ llm_calls' = llm_calls + 1
       ELSE
           /\ ex' = Raise(ex, "refinement_failed")
           /\ llm_calls' = llm_calls
    /\ UNCHANGED <<run, run_products, tax_rows, seg_rows, refined_rows,
                   interaction_rows, blobs, executions_left, fault_budget,
                   defect_budget, shuffle_kind, limvars, stagevars, clientvars, batchvars>>

\* _refine_assignments, lines 397-422
store_refinement(okBlob, okIndex) ==
    /\ ex.pc = "store_refinement"
    /\ StoreFaults(<<okBlob, okBlob => okIndex>>)
    /\ LET blob == Blob("refine_assignments", ex.ref_idx)
           row == IndexRow("refine_assignments", ex.ref_idx)
           e1 == [ex EXCEPT !.refined = @ \o ex.result_segs,
                            !.result_segs = <<>>,
                            !.store_fault = @ \/ ~okIndex]
           e2 == IF ex.ref_idx < Len(ex.ref_batches)
                 THEN StartRefineBatch(e1, ex.ref_idx + 1)
                 ELSE [e1 EXCEPT !.pc = "persist_refined"]
       IN IF ~okBlob THEN
              /\ ex' = Raise(ex, "storage_failed")
              /\ UNCHANGED <<blobs, interaction_rows, llm_calls>>
          ELSE
              /\ blobs' = Append(blobs, blob)
              /\ interaction_rows' =
                    IF okIndex THEN Append(interaction_rows, row)
                    ELSE interaction_rows
              /\ ex' = e2
              /\ llm_calls' = IF IssuesCall(e2) THEN llm_calls + 1 ELSE llm_calls
    /\ UNCHANGED <<run, run_products, tax_rows, seg_rows, refined_rows,
                   executions_left, defect_budget,
                   shuffle_kind, limvars, stagevars, clientvars, batchvars>>

\* lines 318-327
persist_refined(ok) ==
    /\ ex.pc = "persist_refined"
    /\ StoreFaults(<<ok>>)
    /\ ex.refined = <<>> => ok
    /\ refined_rows' = IF ok THEN refined_rows \o SegmentRows(ex.refined)
                       ELSE refined_rows
    /\ ex' = [ex EXCEPT !.pc = "complete",
                        !.store_fault = @ \/ (ex.refined # <<>> /\ ~ok)]
    /\ UNCHANGED <<run, run_products, tax_rows, seg_rows, interaction_rows,
                   blobs, llm_calls, executions_left, defect_budget,
                   shuffle_kind, limvars, stagevars, clientvars, batchvars>>

\* line 330: mark the run completed and return
execute_run_complete(ok) ==
    /\ ex.pc = "complete"
    /\ StoreFaults(<<ok>>)
    /\ run' = update_status("completed", ok)
    /\ ex' = [ex EXCEPT !.pc = "idle", !.outcome = "returned"]
    /\ UNCHANGED <<run_products, tax_rows, seg_rows, refined_rows,
                   interaction_rows, blobs, llm_calls, executions_left, defect_budget,
                   shuffle_kind, limvars, stagevars, clientvars, batchvars>>

\* a handler that re-raises without writing the status
execute_run_except_no_write(ok) ==
    /\ ex.pc = "handler"
    /\ StoreFaults(<<ok>>)
    /\ ex' = [ex EXCEPT !.pc = "idle", !.outcome = "raised"]
    /\ UNCHANGED <<run, run_products, tax_rows, seg_rows, refined_rows,
                   interaction_rows, blobs, llm_calls, executions_left,
                   defect_budget, shuffle_kind, limvars, stagevars, clientvars, batchvars>>

\* lines 332-335: the except clause writes FAILED and re-raises
execute_run_except(ok) ==
    /\ ex.pc = "handler"
    /\ StoreFaults(<<ok>>)
    /\ run' = update_status("failed", ok)
    /\ ex' = [ex EXCEPT !.pc = "idle", !.outcome = "raised"]
    /\ UNCHANGED <<run_products, tax_rows, seg_rows, refined_rows,
                   interaction_rows, blobs, llm_calls, executions_left, defect_budget,
                   shuffle_kind, limvars, stagevars, clientvars, batchvars>>

RunNext ==
    \/ \E ids \in ProductIdLists, okRun, okProducts \in BOOLEAN :
          create_run(ids, okRun, okProducts)
    \/ \E okRun, okProducts \in BOOLEAN : execute_run_start(okRun, okProducts)
    \/ /\ ex.pc = "segment_products"
       /\ \E resp \in ExtractionResponses(Len(ex.batches[ex.batch_idx])) :
             segment_products_return(resp)
    \/ segment_products_raise
    \/ \E okBlob, okIndex \in BOOLEAN : store_segmentation(okBlob, okIndex)
    \/ \E ok \in BOOLEAN : persist_taxonomies(ok)
    \/ \E ok \in BOOLEAN : persist_segments(ok)
    \/ \E ok \in BOOLEAN : update_progress_step(ok)
    \/ \E names \in ConsolidationResults : consolidate_taxonomy_return(names)
    \/ consolidate_taxonomy_raise
    \/ \E okBlob \in BOOLEAN : store_consolidation(okBlob)
    \/ \E ok \in BOOLEAN : persist_consolidated(ok)
    \/ /\ ex.pc = "refine_assignments"
       /\ \E r \in RefinementResponses(ex.ref_batches[ex.ref_idx], ex.consolidated) :
             refine_assignments_valid(r)
    \/ refine_assignments_invalid
    \/ refine_assignments_error
    \/ \E okBlob, okIndex \in BOOLEAN : store_refinement(okBlob, okIndex)
    \/ \E ok \in BOOLEAN : persist_refined(ok)
    \/ \E ok \in BOOLEAN : execute_run_complete(ok)
    \/ \E ok \in BOOLEAN : execute_run_except(ok)

SpecRunInit == RunInit /\ LimiterIdle /\ StageIdle /\ ClientIdle /\ BatchIdle

SpecRun == SpecRunInit /\ [][RunNext]_vars

(***************************************************************************)
(* Properties of one execute_run (SpecRun).                                *)
(***************************************************************************)
TaxonomyIds == {tax_rows[k].id : k \in DOMAIN tax_rows}

AssignedOnce(rows, product_id) ==
    /\ Cardinality({j \in DOMAIN rows : rows[j].product_id = product_id}) = 1
    /\ \A j \in DOMAIN rows :
          rows[j].product_id = product_id => rows[j].taxonomy_id \in TaxonomyIds

\* C1: in a completed run every product registered by create_run has exactly
\* one initial and exactly one refined assignment, each with the id of a
\* taxonomy persisted for the run.
C1_CompletedRunAssignsEveryProduct ==
    run.status = "completed" =>
        \A i \in DOMAIN run_products :
            /\ AssignedOnce(seg_rows, run_products[i])
            /\ AssignedOnce(refined_rows, run_products[i])

TaxonomyRowNames == [k \in DOMAIN tax_rows |-> tax_rows[k].category_name]

C21_RefinedReferConsolidated ==
    ex.pc = "complete" =>
       \A j \in DOMAIN refined_rows :
          refined_rows[j].taxonomy_id \in ex.consolidated_ids

\* C26: when extraction produced exactly one batch, consolidation passes the
\* batch's taxonomy through unchanged and issues no consolidation LLM call
C26_SingleBatchNoConsolidationCall ==
    Len(ex.batches) = 1 =>
       /\ ex.pc \notin {"consolidate_taxonomy", "store_consolidation"}
       /\ ex.pc = "persist_consolidated" => ex.consolidated = ex.batch_taxonomies

\* C25: every initial assignment persisted by execute_run carries the id of
\* a taxonomy row the repository returned for the same run, never the
\* batch-local 1-based index of the LLM
C25_AssignmentsCarryRepositoryIds ==
    \A j \in DOMAIN seg_rows : \E t \in DOMAIN tax_rows :
       /\ tax_rows[t].id = seg_rows[j].taxonomy_id
       /\ tax_rows[t].run_id = seg_rows[j].run_id

\* C24: every interaction-index row has the path of a file store_interaction
\* wrote for the same interaction type and batch.
C24_IndexRowsPointAtBlobs ==
    \A i \in DOMAIN interaction_rows :
       \E b \in DOMAIN blobs :
          /\ blobs[b].type = interaction_rows[i].type
          /\ blobs[b].batch_id = interaction_rows[i].batch_id
          /\ blobs[b].path = interaction_rows[i].file_path

\* Re-execution: execute_run is invoked up to MaxExecutions times on the same
\* run, over a store that does not fail and well-formed extraction responses.
RerunInit ==
    /\ run = [status |-> "none", total_products |-> 0, processed_products |-> 0]
    /\ run_products = <<>>
    /\ tax_rows = <<>>
    /\ seg_rows = <<>>
    /\ refined_rows = <<>>
    /\ interaction_rows = <<>>
    /\ blobs = <<>>
    /\ ex = IdleEx
    /\ llm_calls = 0
    /\ executions_left = MaxExecutions
    /\ fault_budget = 0
    /\ defect_budget = 0
    /\ shuffle_kind \in ShuffleKinds

SpecRerunInit == RerunInit /\ LimiterIdle /\ StageIdle /\ ClientIdle /\ BatchIdle

SpecRerun == SpecRerunInit /\ [][RunNext]_vars

(***************************************************************************)
(* Properties of re-execution (SpecRerun).                                 *)
(***************************************************************************)
\* C2: once the run's status is completed or failed it never changes again.
C2_TerminalStatusAbsorbing ==
    [][run.status \in {"completed", "failed"} => run'.status = run.status]_vars

\* C4: a step taken while the run is completed issues no LLM call and leaves
\* the taxonomies, the initial and refined assignments, the interaction index
\* and the progress counters as they were.
C4_CompletedRunIdempotent ==
    [][run.status = "completed" =>
          UNCHANGED <<llm_calls, tax_rows, seg_rows, refined_rows,
                      interaction_rows, run>>]_vars

\* C6: processed_products never decreases from one written value to the next
\* and never exceeds total_products.
C6_ProgressMonotone ==
    [][/\ run'.processed_products >= run.processed_products
       /\ run'.processed_products <= run'.total_products]_vars

(***************************************************************************)
(* core/utils/rate_limiter.py                                              *)
(***************************************************************************)
RECURSIVE SumAmounts(_)
SumAmounts(deq) == IF deq = <<>> THEN 0 ELSE Head(deq)[2] + SumAmounts(Tail(deq))

\* a check that forgets the new reservation
within_ignoring_add(deq, limit, add) == SumAmounts(deq) <= limit

\* RateLimiter._within (lines 124-126)
within(deq, limit, add) == SumAmounts(deq) + add <= limit

\* RateLimiter._purge_old (lines 128-132), for one deque
RECURSIVE purge_old(_, _)
purge_old(deq, t) ==
    IF deq # <<>> /\ Head(deq)[1] < t - WindowTicks
    THEN purge_old(Tail(deq), t)
    ELSE deq

\* acquire's default reservation for the output (lines 86-87)
EstOutputTokens == ModelMaxTokens \div 2

\* the admission test of acquire (lines 94-98) on the purged deques
Admits(est_in) ==
    /\ within(purge_old(req_times, now), MaxRpm, 1)
    /\ within(purge_old(in_tok_times, now), MaxInTok, est_in)
    /\ within(purge_old(out_tok_times, now), MaxOutTok, EstOutputTokens)

\* one pass of acquire's loop (lines 91-106) for task p, whose record
\* becomes t: purge, then reserve and return, or sleep.  An entry is the
\* code's (timestamp, amount) followed by the task that appended it, which
\* the code does not record.
AdmissionPass(p, t) ==
    IF Admits(t.est_in)
    THEN /\ req_times' = Append(purge_old(req_times, now), <<now, 1, p>>)
         /\ in_tok_times' =
                Append(purge_old(in_tok_times, now), <<now, t.est_in, p>>)
         /\ out_tok_times' =
                Append(purge_old(out_tok_times, now), <<now, EstOutputTokens, p>>)
         /\ tasks' = [tasks EXCEPT ![p] = [t EXCEPT !.pc = "gate"]]
    ELSE /\ req_times' = purge_old(req_times, now)
         /\ in_tok_times' = purge_old(in_tok_times, now)
         /\ out_tok_times' = purge_old(out_tok_times, now)
         /\ tasks' = [tasks EXCEPT ![p] = [t EXCEPT !.pc = "sleeping"]]

\* release's correction of a deque (lines 112-117): the newest entry keeps
\* its timestamp and takes the actual amount
CorrectLast(deq, actual) ==
    IF deq # <<>>
    THEN [deq EXCEPT ![Len(deq)] = <<deq[Len(deq)][1], actual, deq[Len(deq)][3]>>]
    ELSE deq

(***************************************************************************)
(* core/utils/llm_utils.py : LLMManager.safe_call                          *)
(***************************************************************************)
EstInputTokens == {1, 2}
\* output tokens the provider reports: a short answer or a full-length one
ActualOutputTokens == {1, ModelMaxTokens}

\* safe_call is invoked (lines 138-145) and reaches `await self._sem.acquire()`
safe_call_begin(p, est_in, validate, builder) ==
    /\ tasks[p].pc = "idle"
    /\ tasks' = [tasks EXCEPT ![p] =
                    [pc |-> "sem_wait", attempt |-> 1, est_in |-> est_in,
                     validate |-> validate, builder |-> builder, holds |-> 0,
                     prompt |-> "original", failure |-> "none"]]
    /\ UNCHANGED <<runvars, stagevars, clientvars, batchvars, now, req_times, in_tok_times, out_tok_times, sem, llm_sem>>

\* acquire takes a slot of the semaphore and makes its first pass (89-106)
acquire_slot(p) ==
    /\ tasks[p].pc = "sem_wait"
    /\ sem > 0
    /\ sem' = sem - 1
    /\ AdmissionPass(p, [tasks[p] EXCEPT !.holds = @ + 1])
    /\ UNCHANGED <<runvars, stagevars, clientvars, batchvars, now, llm_sem>>

\* asyncio.sleep(0.25) returns and the loop makes another pass
acquire_wake(p) ==
    /\ tasks[p].pc = "sleeping"
    /\ AdmissionPass(p, tasks[p])
    /\ UNCHANGED <<runvars, stagevars, clientvars, batchvars, now, sem, llm_sem>>

\* `async with _get_semaphore()` is entered and the provider is called (148-149)
enter_gate(p) ==
    /\ tasks[p].pc = "gate"
    /\ llm_sem > 0
    /\ llm_sem' = llm_sem - 1
    /\ tasks' = [tasks EXCEPT ![p].pc = "invoking"]
    /\ UNCHANGED <<runvars, stagevars, clientvars, batchvars, now, req_times, in_tok_times, out_tok_times, sem>>

\* the provider answers (lines 151-220): release with the actual usage, then
\* validation; a failed validation that cannot be retried raises inside the
\* try block, so the except clause (222-248) releases once more
provider_returns(p, act_in, act_out, valid) ==
    LET t == tasks[p]
        raises == ~valid /\ (~t.builder \/ t.attempt = MaxAttempts)
        releases == IF raises THEN 2 ELSE 1
        last == t.attempt = MaxAttempts
    IN /\ t.pc = "invoking"
       /\ valid \/ t.validate
       /\ llm_sem' = llm_sem + 1
       /\ sem' = sem + releases
       /\ in_tok_times' = CorrectLast(in_tok_times, act_in)
       /\ out_tok_times' = CorrectLast(out_tok_times, act_out)
       /\ tasks' = [tasks EXCEPT ![p] =
                 [t EXCEPT !.holds = @ - releases,
                           !.pc = IF valid THEN "returned"
                                  ELSE IF raises /\ last THEN "raised"
                                  ELSE "sem_wait",
                           !.attempt = IF valid \/ (raises /\ last) THEN @
                                       ELSE @ + 1,
                           \* line 203: current_prompt is rebuilt only on
                           \* the `continue` path
                           !.prompt = IF ~valid /\ ~raises
                                      THEN "retry_prompt" ELSE @,
                           !.failure = IF valid THEN @ ELSE "validation"]]
       /\ UNCHANGED <<runvars, stagevars, clientvars, batchvars, now, req_times>>

\* the provider call raises (lines 222-249)
provider_raises(p) ==
    LET t == tasks[p]
        last == t.attempt = MaxAttempts
    IN /\ t.pc = "invoking"
       /\ llm_sem' = llm_sem + 1
       /\ sem' = sem + 1
       /\ tasks' = [tasks EXCEPT ![p] =
                 [t EXCEPT !.holds = @ - 1,
                           !.pc = IF last THEN "raised" ELSE "sem_wait",
                           !.attempt = IF last THEN @ ELSE @ + 1,
                           !.failure = "transport"]]
       /\ UNCHANGED <<runvars, stagevars, clientvars, batchvars, now, req_times, in_tok_times, out_tok_times>>

\* the task is cancelled at one of its awaits: CancelledError leaves acquire
\* (no handler) and passes safe_call's `except Exception`; only the
\* `async with` of the global gate is unwound
cancel(p) ==
    /\ tasks[p].pc \in {"sem_wait", "sleeping", "gate", "invoking"}
    /\ llm_sem' = IF tasks[p].pc = "invoking" THEN llm_sem + 1 ELSE llm_sem
    /\ tasks' = [tasks EXCEPT ![p].pc = "cancelled"]
    /\ UNCHANGED <<runvars, stagevars, clientvars, batchvars, now, req_times, in_tok_times, out_tok_times, sem>>

\* time passes
Tick ==
    /\ now < MaxTime
    /\ now' = now + 1
    /\ UNCHANGED <<runvars, stagevars, clientvars, batchvars, req_times, in_tok_times, out_tok_times, sem, llm_sem, tasks>>

LimiterNext ==
    \/ \E p \in Tasks, est_in \in EstInputTokens, validate, builder \in BOOLEAN :
          /\ builder => validate
          /\ safe_call_begin(p, est_in, validate, builder)
    \/ \E p \in Tasks : acquire_slot(p)
    \/ \E p \in Tasks : acquire_wake(p)
    \/ \E p \in Tasks : enter_gate(p)
    \/ \E p \in Tasks, act_out \in ActualOutputTokens, valid \in BOOLEAN :
          \E act_in \in {tasks[p].est_in, tasks[p].est_in + 1} :
             provider_returns(p, act_in, act_out, valid)
    \/ \E p \in Tasks : provider_raises(p)
    \/ \E p \in Tasks : cancel(p)
    \/ Tick

\* the service and the stage engine stay as constructed
SpecLimiterInit ==
    /\ RunInit /\ shuffle_kind = "reverse" /\ LimiterIdle /\ StageIdle
    /\ ClientIdle /\ BatchIdle

SpecLimiter == SpecLimiterInit /\ [][LimiterNext]_vars

(***************************************************************************)
(* The rate limiter under fair scheduling.  RateLimiter is built with      *)
(* max_concurrent_requests = LiveConcurrent, the callers pass no           *)
(* validate_response, no caller is cancelled, a caller that has finished   *)
(* may call again, and the clock runs on: once it shows MaxTime the        *)
(* timestamps are moved back by one tick instead.                          *)
(***************************************************************************)
LiveConcurrent == 2

LimiterLiveInit ==
    /\ now = 0
    /\ req_times = <<>>
    /\ in_tok_times = <<>>
    /\ out_tok_times = <<>>
    /\ sem = LiveConcurrent
    /\ llm_sem = MaxLlmCalls
    /\ tasks = [p \in Tasks |-> IdleTask]

\* safe_call has returned or raised; the caller's slot is free for a new call
safe_call_end(p) ==
    /\ tasks[p].pc \in {"returned", "raised"}
    /\ tasks' = [tasks EXCEPT ![p] = IdleTask]
    /\ UNCHANGED <<runvars, stagevars, clientvars, batchvars, now, req_times,
                   in_tok_times, out_tok_times, sem, llm_sem>>

\* an entry's timestamp one tick further in the past; all timestamps older
\* than the window behave alike in _purge_old and are kept at one value
Older(deq) ==
    [i \in DOMAIN deq |->
        <<IF deq[i][1] - 1 > MaxTime - WindowTicks - 1
          THEN deq[i][1] - 1 ELSE MaxTime - WindowTicks - 1,
          deq[i][2], deq[i][3]>>]

\* time passes when the clock shows MaxTime
TickOn ==
    /\ now = MaxTime
    /\ req_times' = Older(req_times)
    /\ in_tok_times' = Older(in_tok_times)
    /\ out_tok_times' = Older(out_tok_times)
    /\ UNCHANGED <<runvars, stagevars, clientvars, batchvars, now, sem,
                   llm_sem, tasks>>

LimiterLiveNext ==
    \/ \E p \in Tasks, est_in \in EstInputTokens :
          safe_call_begin(p, est_in, FALSE, FALSE)
    \/ \E p \in Tasks : acquire_slot(p)
    \/ \E p \in Tasks : acquire_wake(p)
    \/ \E p \in Tasks : enter_gate(p)
    \/ \E p \in Tasks, act_out \in ActualOutputTokens :
          \E act_in \in {tasks[p].est_in, tasks[p].est_in + 1} :
             provider_returns(p, act_in, act_out, TRUE)
    \/ \E p \in Tasks : provider_raises(p)
    \/ \E p \in Tasks : safe_call_end(p)
    \/ Tick
    \/ TickOn

SpecLimiterLiveInit ==
    /\ RunInit /\ shuffle_kind = "reverse" /\ LimiterLiveInit /\ StageIdle
    /\ ClientIdle /\ BatchIdle

\* the clock advances, a sleeping acquire wakes up, asyncio.Semaphore hands
\* a freed permit to a waiter, the global gate lets a call in and every
\* provider call ends
SpecLimiterLive ==
    /\ SpecLimiterLiveInit /\ [][LimiterLiveNext]_vars
    /\ WF_vars(Tick \/ TickOn)
    /\ \A p \in Tasks :
          /\ SF_vars(acquire_slot(p))
          /\ WF_vars(acquire_wake(p))
          /\ WF_vars(enter_gate(p))
          /\ WF_vars(provider_raises(p)
                     \/ \E act_out \in ActualOutputTokens :
                           \E act_in \in {tasks[p].est_in, tasks[p].est_in + 1} :
                              provider_returns(p, act_in, act_out, TRUE))

\* C29: with time advancing, every call released and no caller cancelled,
\* every acquire whose estimates are within the per-minute maxima is
\* eventually admitted, whatever the other callers do.
C29_AcquireEventuallyAdmits ==
    \A p \in Tasks :
       (tasks[p].pc \in {"sem_wait", "sleeping"}) ~> (tasks[p].pc = "gate")

(***************************************************************************)
(* Properties of the rate limiter (SpecLimiter).                           *)
(***************************************************************************)
\* the amounts a deque records for the last WindowTicks ticks
WindowSum(deq) == SumAmounts(SelectSeq(deq, LAMBDA e : e[1] >= now - WindowTicks))

InFlight == {p \in Tasks : tasks[p].pc \in {"gate", "invoking"}}

\* C7 (as stated): no window's sum over the last minute is ever above its
\* maximum, also after release has corrected reservations to actual usage.
C7_WindowsWithinLimits ==
    /\ WindowSum(req_times) <= MaxRpm
    /\ WindowSum(in_tok_times) <= MaxInTok
    /\ WindowSum(out_tok_times) <= MaxOutTok

\* C7 (amended): when acquire admits a call, each of the three windows, with
\* the new reservation included, is within its maximum; and the request
\* window is within its maximum at all times.
C7_AdmissionWithinLimits ==
    /\ [][(\E p \in Tasks : tasks[p].pc # "gate" /\ tasks'[p].pc = "gate") =>
             /\ WindowSum(req_times)' <= MaxRpm
             /\ WindowSum(in_tok_times)' <= MaxInTok
             /\ WindowSum(out_tok_times)' <= MaxOutTok]_vars
    /\ [](WindowSum(req_times) <= MaxRpm)

\* C7 witness: the request window is full after two admissions and acquire
\* has put the next caller to sleep
C7_Witness ==
    /\ WindowSum(req_times) = MaxRpm
    /\ \E p \in Tasks : tasks[p].pc = "sleeping"

\* C8: the calls admitted by acquire and not yet released never number more
\* than max_concurrent_requests.
C8_InFlightWithinLimit == Cardinality(InFlight) <= MaxConcurrent

\* the entries of deq that were not appended by task p
EntriesOfOthers(deq, p) == SelectSeq(deq, LAMBDA e : e[3] # p)

\* C22: when a call is released with its actual usage, only the input-token
\* and output-token entries the releasing call appended are rewritten; the
\* entries reserved by the other calls keep their values.
C22_ReleaseRewritesOwnEntries ==
    [][\A p \in Tasks :
          (tasks[p].pc = "invoking" /\ tasks'[p].pc # "invoking") =>
             /\ EntriesOfOthers(in_tok_times', p) = EntriesOfOthers(in_tok_times, p)
             /\ EntriesOfOthers(out_tok_times', p) = EntriesOfOthers(out_tok_times, p)]_vars

\* C28: on every path of safe_call each acquire is matched by exactly one
\* release: no task has released more often than it acquired, and the
\* semaphore's permits never exceed max_concurrent_requests.
C28_OneReleasePerAcquire ==
    /\ \A p \in Tasks : tasks[p].holds >= 0
    /\ sem <= MaxConcurrent

\* C9: a cancelled call holds no slot of the limiter's semaphore.
C9_CancelledHoldsNoSlot ==
    \A p \in Tasks : tasks[p].pc = "cancelled" => tasks[p].holds = 0

\* C12: one safe_call makes at most MAX_ATTEMPTS_PER_CALL attempts, returns
\* on the first valid response, raises LLMCallError only when the last
\* attempt has failed, and starts a further attempt only with the prompt
\* built by retry_prompt_builder or after a transport error.
C12_AttemptsAndRetryPrompt ==
    /\ [](\A p \in Tasks :
            /\ tasks[p].attempt <= MaxAttempts
            /\ tasks[p].pc = "raised" =>
                   tasks[p].attempt = MaxAttempts /\ tasks[p].failure # "none")
    /\ [][\A p \in Tasks :
            tasks[p].attempt >= 1 /\ tasks'[p].attempt = tasks[p].attempt + 1 =>
               \/ tasks'[p].prompt = "retry_prompt"
               \/ tasks'[p].failure = "transport"]_vars

(***************************************************************************)
(* core/utils/llm_taxonomy_pipeline.py : BaseStage.execute                 *)
(*                                                                         *)
(* Each invocation of _run_recursive works on a slice <<lo, hi>> of the    *)
(* input sequence.  Its position is "none" (not invoked), "call1" or       *)
(* "call2" (awaiting the LLM call of that attempt), "validate1" or         *)
(* "validate2" (the call has returned and been counted), "join" (awaiting  *)
(* both halves), "done", or the exception it raised.                       *)
(***************************************************************************)
Root == <<1, SeqLen>>
SliceLen(n) == n[2] - n[1] + 1
\* lines 235-236: mid = len(seq) // 2; left, right = seq[:mid], seq[mid:]
Left(n) == <<n[1], n[1] + (SliceLen(n) \div 2) - 1>>
\* a right half that is the whole slice again
Right_keeps_slice(n) == n
Right(n) == <<n[1] + (SliceLen(n) \div 2), n[2]>>

Raised == {"budget_exceeded", "protocol_error", "llm_error"}

\* what _validate hands back as retry_ctx for an invalid response
Diagnostics == {"missing_ids", "duplicate_ids"}

\* line 209: prompt1 = _build_prompt(seq, ctx)
build_prompt(n) == <<"prompt", n>>
\* line 223: prompt2 = _retry_prompt(prompt1, retry_ctx1, ctx)
retry_prompt(prompt1, retry_ctx) == <<"retry", prompt1, retry_ctx>>

\* line 234: the slice is split when it has more than one item
Splits_pairs_only(n) == SliceLen(n) > 2
Splits(n) == SliceLen(n) > 1

\* the budget test of lines 203 and 218
BudgetExhausted == calls_made >= CallBudget

\* _run_recursive as far as its first LLM call (lines 203-210), for the
\* slices in `started`, in gather's order
StartNodes(started) ==
    /\ nodes' = [n \in Nodes |->
                    IF n \in started
                    THEN IF BudgetExhausted THEN "budget_exceeded" ELSE "call1"
                    ELSE IF nodes[n] = "validate2" /\ Left(n) \in started
                    THEN "join"
                    ELSE nodes[n]]
    /\ calls_issued' = IF BudgetExhausted THEN calls_issued
                       ELSE calls_issued + Cardinality(started)
    /\ prompts' = [n \in Nodes |->
                      IF n \in started /\ ~BudgetExhausted
                      THEN <<build_prompt(n)>> ELSE prompts[n]]

\* execute is called (line 250)
execute_begin ==
    /\ nodes[Root] = "none"
    /\ StartNodes({Root})
    /\ UNCHANGED <<runvars, limvars, clientvars, batchvars, calls_made>>

\* _call_and_persist returns and the call is counted (lines 210-211, 224-225)
call_returns(n) ==
    /\ nodes[n] \in {"call1", "call2"}
    /\ calls_made' = calls_made + 1
    /\ nodes' = [nodes EXCEPT ![n] = IF @ = "call1" THEN "validate1"
                                     ELSE "validate2"]
    /\ UNCHANGED <<runvars, limvars, clientvars, batchvars, calls_issued, prompts>>

\* safe_llm_call raises out of _call_and_persist
call_raises(n) ==
    /\ nodes[n] \in {"call1", "call2"}
    /\ nodes' = [nodes EXCEPT ![n] = "llm_error"]
    /\ UNCHANGED <<runvars, limvars, clientvars, batchvars, calls_made, calls_issued, prompts>>

\* the first response is validated (lines 213-224)
validate_first(n, ok, retry_ctx) ==
    /\ nodes[n] = "validate1"
    /\ IF ok THEN
           /\ nodes' = [nodes EXCEPT ![n] = "done"]
           /\ UNCHANGED <<calls_issued, prompts>>
       ELSE IF BudgetExhausted THEN
           /\ nodes' = [nodes EXCEPT ![n] = "budget_exceeded"]
           /\ UNCHANGED <<calls_issued, prompts>>
       ELSE
           /\ nodes' = [nodes EXCEPT ![n] = "call2"]
           /\ calls_issued' = calls_issued + 1
           /\ prompts' = [prompts EXCEPT
                             ![n] = Append(@, retry_prompt(@[1], retry_ctx))]
    /\ UNCHANGED <<runvars, limvars, clientvars, batchvars, calls_made>>

\* the second response is validated (lines 227-248): an invalid one splits
\* the slice, and gather starts both halves
validate_second(n, ok) ==
    /\ nodes[n] = "validate2"
    /\ IF ok THEN
           /\ nodes' = [nodes EXCEPT ![n] = "done"]
           /\ UNCHANGED <<calls_issued, prompts>>
       ELSE IF Splits(n) THEN
           StartNodes({Left(n), Right(n)})
       ELSE
           /\ nodes' = [nodes EXCEPT ![n] = "protocol_error"]
           /\ UNCHANGED <<calls_issued, prompts>>
    /\ UNCHANGED <<runvars, limvars, clientvars, batchvars, calls_made>>

\* gather completes (lines 237-243): both halves returned, or the first
\* exception of a half is raised while the other half keeps running
join(n) ==
    /\ nodes[n] = "join"
    /\ \/ /\ nodes[Left(n)] = "done"
          /\ nodes[Right(n)] = "done"
          /\ nodes' = [nodes EXCEPT ![n] = "done"]
       \/ \E c \in {Left(n), Right(n)} :
             /\ nodes[c] \in Raised
             /\ nodes' = [nodes EXCEPT ![n] = nodes[c]]
    /\ UNCHANGED <<runvars, limvars, clientvars, batchvars, calls_made, calls_issued, prompts>>

StageNext ==
    \/ execute_begin
    \/ \E n \in Nodes : call_returns(n)
    \/ \E n \in Nodes : call_raises(n)
    \/ \E n \in Nodes, ok \in BOOLEAN, retry_ctx \in Diagnostics :
          validate_first(n, ok, retry_ctx)
    \/ \E n \in Nodes, ok \in BOOLEAN : validate_second(n, ok)
    \/ \E n \in Nodes : join(n)

\* the service and the rate limiter stay as constructed
SpecStageInit ==
    /\ RunInit /\ shuffle_kind = "reverse" /\ LimiterIdle /\ StageIdle
    /\ ClientIdle /\ BatchIdle

SpecStage == SpecStageInit /\ [][StageNext]_vars

(***************************************************************************)
(* BaseStage.execute when every LLM call returns: _call_and_persist never  *)
(* raises, and the event loop keeps running what is ready to run.           *)
(***************************************************************************)
StageLiveNext ==
    \/ execute_begin
    \/ \E n \in Nodes : call_returns(n)
    \/ \E n \in Nodes, ok \in BOOLEAN, retry_ctx \in Diagnostics :
          validate_first(n, ok, retry_ctx)
    \/ \E n \in Nodes, ok \in BOOLEAN : validate_second(n, ok)
    \/ \E n \in Nodes : join(n)

SpecStageLive == SpecStageInit /\ [][StageLiveNext]_vars /\ WF_vars(StageLiveNext)

(***************************************************************************)
(* Properties of the stage engine (SpecStage).                             *)
(***************************************************************************)
\* C10: the LLM calls issued within one execute never number more than
\* MAX_LLM_CALLS_PER_EXECUTE.
C10_CallsWithinBudget == calls_issued <= CallBudget

\* the invocation for slice n leaves position `from` in this step
Leaves(n, from) == nodes[n] = from /\ nodes'[n] # from

\* C11 (as stated): an invalid first response is always followed by the
\* retry call, whatever the state of the call budget.
C11_InvalidFirstAlwaysRetried ==
    [][\A n \in Nodes :
          Leaves(n, "validate1") /\ nodes'[n] # "done" =>
              nodes'[n] = "call2"]_vars

\* C11 (amended): after an invalid first response the invocation either
\* raises StageCallBudgetExceeded (budget used up) or sends exactly one
\* retry, whose prompt is _retry_prompt of the first prompt and a validator
\* diagnostic; it never sends a third prompt.  After an invalid retry a slice
\* of more than one item starts both of its non-empty halves, which cover it
\* exactly, in the same step and returns only when both have returned; a
\* slice of one item raises StageProtocolError.
C11_RetryOnceThenSplitOrFail ==
    /\ [](\A n \in Nodes : Len(prompts[n]) <= 2)
    /\ [][\A n \in Nodes :
           /\ Leaves(n, "validate1") /\ nodes'[n] # "done" =>
                 \/ /\ calls_made >= CallBudget
                    /\ nodes'[n] = "budget_exceeded"
                    /\ prompts'[n] = prompts[n]
                 \/ /\ calls_made < CallBudget
                    /\ nodes'[n] = "call2"
                    /\ \E d \in Diagnostics :
                          prompts'[n] =
                              <<build_prompt(n),
                                retry_prompt(build_prompt(n), d)>>
           /\ Leaves(n, "validate2") /\ nodes'[n] # "done" =>
                 IF SliceLen(n) > 1
                 THEN /\ nodes'[n] = "join"
                      /\ SliceLen(Left(n)) >= 1 /\ SliceLen(Right(n)) >= 1
                      /\ Left(n)[1] = n[1] /\ Right(n)[2] = n[2]
                      /\ Right(n)[1] = Left(n)[2] + 1
                      /\ nodes[Left(n)] = "none" /\ nodes[Right(n)] = "none"
                      /\ nodes'[Left(n)] \in {"call1", "budget_exceeded"}
                      /\ nodes'[Right(n)] = nodes'[Left(n)]
                 ELSE nodes'[n] = "protocol_error"
           /\ Leaves(n, "join") /\ nodes'[n] = "done" =>
                 nodes[Left(n)] = "done" /\ nodes[Right(n)] = "done"]_vars

\* C11 witness: a slice was split after two invalid responses; its left
\* half, a single item that failed both of its attempts, has raised
\* StageProtocolError and its right half has returned
C11_Witness ==
    \E n \in Nodes :
       /\ nodes[n] = "join"
       /\ Len(prompts[n]) = 2
       /\ SliceLen(Left(n)) = 1
       /\ Len(prompts[Left(n)]) = 2
       /\ nodes[Left(n)] = "protocol_error"
       /\ nodes[Right(n)] = "done"

(***************************************************************************)
(* llm/product_segmentation_client.py with an LLMCache attached: calls of  *)
(* refine_assignments and segment_products made one after another.         *)
(*                                                                         *)
(* A prompt is written [segments, issues]: the batch it renders and, for a *)
(* retry prompt, the rejected response whose diagnostic it quotes.  The    *)
(* cache key is a hash of the prompt and of a context that is the same for *)
(* every call here, so the prompt stands for the key.                      *)
(***************************************************************************)
RefineTaxonomies == <<"A", "B">>

Seg(p, t) == [product_id |-> p, taxonomy_id |-> t, category_name |-> "none"]

\* segment lists handed to refine_assignments; the last is what execute_run
\* collects for two one-product batches each answered with index 0
RefineInputs ==
    {<<Seg(7, 1)>>, <<Seg(7, 1), Seg(8, 2)>>, <<Seg(0, 1), Seg(0, 2)>>}

ExtractionInputs == {<<0>>, <<7, 8>>}

\* texts the provider may answer a refinement prompt of n products and m
\* subcategories with: no JSON, {}, {P_i: S_0} for a product of the batch,
\* {P_0: S_1}, {P_n: S_0} (unknown product) and {P_0: S_m} (unknown
\* subcategory)
RefineResponseTexts(n, m) ==
    {[k |-> -1, s |-> 1], [k |-> 0, s |-> 1]}
    \cup [k : 1..(n + 1), s : {1}]
    \cup [k : {1}, s : 2..(m + 1)]

\* the JSON text of a response of the client model: no JSON object, the
\* empty object, or the object with the single entry P_(k-1): S_(s-1)
RefinementText(r) ==
    IF r.k < 0
    THEN [shape |-> "none", mapping |-> <<>>, segments |-> <<>>]
    ELSE [shape |-> "mapping",
          mapping |-> [i \in {j \in {r.k - 1} : r.k # 0} |-> r.s - 1],
          segments |-> <<>>]

\* refinement.parse_and_validate_refinement_response (lines 114-201), the
\* verdict.  P_i and S_j are written i and j.  A text holds no JSON object
\* (shape "none"), an object of P_i: S_j entries ("mapping"), or an object
\* with the key "segments" and a list of records with a taxonomy_id.
parse_and_validate_refinement_response(text, batch_product_ids, valid_subcategory_ids) ==
    CASE text.shape = "none" -> FALSE
      [] text.shape = "segments" -> TRUE
      [] text.shape = "mapping" ->
            \A prod_id \in DOMAIN text.mapping :
               /\ prod_id \in batch_product_ids
               /\ text.mapping[prod_id] \in valid_subcategory_ids

\* the mapping returned with a verdict of True (lines 164, 177-182, 201)
refinement_response_mapping(text) ==
    IF text.shape = "segments"
    THEN [i \in 0..(Len(text.segments) - 1) |-> text.segments[i + 1] - 1]
    ELSE text.mapping

\* LLMCache.save_response / load_response: one file per key
save_response(c, prompt, response) ==
    {e \in c : e.key # prompt} \cup {[key |-> prompt, response |-> response]}

Cached(c, prompt) == {e.response : e \in {x \in c : x.key = prompt}}

\* taxonomy ids _apply_reassignments may give a moved product: positions in
\* the iteration order of the set of the batch's category names
Positions(batch) ==
    1..Cardinality({batch[j].category_name : j \in DOMAIN batch})

ClientMayStart ==
    /\ cl.pc \in {"idle", "returned", "raised"}
    /\ invocations_left > 0
    /\ invocations_left' = invocations_left - 1

\* refine_assignments up to its first await (lines 194-276): the cache is
\* consulted, and a cached response that validates is applied at once
refine_assignments_begin(segs, pos) ==
    LET batch == WithCategoryNames(segs, RefineTaxonomies)
        prompt == [segments |-> segs, issues |-> <<>>]
        hits == {r \in Cached(cache, prompt) :
                    parse_and_validate_refinement_response(
                        RefinementText(r), 0..(Len(batch) - 1),
                        0..(Len(RefineTaxonomies) - 1))}
        call == [IdleClient EXCEPT !.op = "refine_assignments",
                                   !.segments = batch, !.prompt = prompt]
    IN /\ ClientMayStart
       /\ pos \in Positions(batch)
       /\ IF hits # {} THEN
              /\ cl' = [call EXCEPT
                          !.pc = "returned", !.from_cache = TRUE,
                          !.response = CHOOSE r \in hits : TRUE,
                          !.result = apply_reassignments(
                              batch,
                              [k |-> (CHOOSE r \in hits : TRUE).k,
                               s |-> (CHOOSE r \in hits : TRUE).s,
                               pos |-> pos],
                              RefineTaxonomies)]
              /\ provider_calls' = provider_calls
          ELSE
              /\ pos = 1
              /\ cl' = [call EXCEPT !.pc = "llm", !.attempt = 1]
              /\ provider_calls' = provider_calls + 1
       /\ UNCHANGED <<runvars, limvars, stagevars, batchvars, cache>>

\* the provider answers a refinement prompt (lines 276-300): the text is
\* saved under the prompt's key, then validated
refine_provider_returns(r, pos) ==
    LET batch == cl.segments
        valid == parse_and_validate_refinement_response(
                     RefinementText(r), 0..(Len(batch) - 1),
                     0..(Len(RefineTaxonomies) - 1))
    IN /\ cl.pc = "llm" /\ cl.op = "refine_assignments"
       /\ r \in RefineResponseTexts(Len(batch), Len(RefineTaxonomies))
       /\ pos \in Positions(batch)
       /\ ~valid => pos = 1
       /\ cache' = save_response(cache, cl.prompt, r)
       /\ IF valid THEN
              /\ cl' = [cl EXCEPT
                          !.pc = "returned", !.response = r,
                          !.result = apply_reassignments(
                              batch, [k |-> r.k, s |-> r.s, pos |-> pos],
                              RefineTaxonomies)]
              /\ provider_calls' = provider_calls
          ELSE IF cl.attempt < MAX_RETRIES THEN
              /\ cl' = [cl EXCEPT
                          !.response = r, !.attempt = @ + 1,
                          !.invalid = @ + 1,
                          !.prompt = [@ EXCEPT !.issues = <<r>>]]
              /\ provider_calls' = provider_calls + 1
          ELSE
              \* lines 307-309: the loop is over, the input is returned
              /\ cl' = [cl EXCEPT !.pc = "returned", !.response = r,
                                  !.invalid = @ + 1,
                                  !.result = batch, !.fallback = TRUE]
              /\ provider_calls' = provider_calls
       /\ UNCHANGED <<runvars, limvars, stagevars, batchvars, invocations_left>>

\* _safe_llm_call raises (lines 302-305)
refine_provider_raises ==
    /\ cl.pc = "llm" /\ cl.op = "refine_assignments"
    /\ IF cl.attempt < MAX_RETRIES THEN
           /\ cl' = [cl EXCEPT !.attempt = @ + 1]
           /\ provider_calls' = provider_calls + 1
       ELSE
           /\ cl' = [cl EXCEPT !.pc = "raised"]
           /\ provider_calls' = provider_calls
    /\ UNCHANGED <<runvars, limvars, stagevars, batchvars, cache,
                   invocations_left>>

\* segment_products up to its LLM call (lines 74-108): no cache is consulted
segment_products_begin(products) ==
    /\ ClientMayStart
    /\ cl' = [IdleClient EXCEPT !.pc = "llm", !.op = "segment_products",
                                !.products = products, !.attempt = 1]
    /\ provider_calls' = provider_calls + 1
    /\ UNCHANGED <<runvars, limvars, stagevars, batchvars, cache>>

\* lines 108-134: the response is parsed and converted
segment_provider_returns(resp) ==
    /\ cl.pc = "llm" /\ cl.op = "segment_products"
    /\ resp \in ExtractionResponses(Len(cl.products))
    /\ cl' = [cl EXCEPT !.pc = "returned", !.extraction = <<resp>>,
                        !.result = segment_products_segments(resp)]
    /\ UNCHANGED <<runvars, limvars, stagevars, batchvars, cache,
                   provider_calls, invocations_left>>

\* the LLM call fails or its text is no JSON object
segment_provider_raises ==
    /\ cl.pc = "llm" /\ cl.op = "segment_products"
    /\ cl' = [cl EXCEPT !.pc = "raised"]
    /\ UNCHANGED <<runvars, limvars, stagevars, batchvars, cache,
                   provider_calls, invocations_left>>

ClientNext ==
    \/ \E segs \in RefineInputs, pos \in 1..2 :
          refine_assignments_begin(segs, pos)
    \/ \E s \in 1..3, pos \in 1..2 :
          \E k \in (-1)..3 : refine_provider_returns([k |-> k, s |-> s], pos)
    \/ refine_provider_raises
    \/ \E products \in ExtractionInputs : segment_products_begin(products)
    \/ \E n \in 1..2 : \E resp \in ExtractionResponses(n) :
          segment_provider_returns(resp)
    \/ segment_provider_raises

ClientInit ==
    /\ cache = {}
    /\ cl = IdleClient
    /\ provider_calls = 0
    /\ invocations_left = MaxInvocations

SpecClientInit ==
    /\ RunInit /\ shuffle_kind = "reverse" /\ LimiterIdle /\ StageIdle
    /\ ClientInit /\ BatchIdle

SpecClient == SpecClientInit /\ [][ClientNext]_vars

(***************************************************************************)
(* Properties of the client (SpecClient).                                  *)
(***************************************************************************)
\* C13: a refinement call whose prompt already has a response stored under
\* its cache key returns that stored response and makes no provider call.
C13_PersistedCallServedFromCache ==
    [][\A segs \in RefineInputs :
          LET stored == Cached(cache, [segments |-> segs, issues |-> <<>>])
          IN /\ invocations_left' = invocations_left - 1
             /\ cl'.op = "refine_assignments"
             /\ cl'.prompt.segments = segs
             /\ stored # {}
             => /\ provider_calls' = provider_calls
                /\ cl'.pc = "returned"
                /\ cl'.response \in stored]_vars

\* C14: every response stored in the cache passes the validator when
\* replayed with the batch and the subcategories of the prompt it is
\* stored under.
C14_CachedResponsesValidate ==
    \A e \in cache :
       parse_and_validate_refinement_response(
           RefinementText(e.response), 0..(Len(e.key.segments) - 1),
           0..(Len(RefineTaxonomies) - 1))

\* C17: once two responses of a refinement batch have failed validation the
\* call has raised: there is no third attempt and the input assignments are
\* not returned.
C17_TwoInvalidResponsesRaise ==
    (cl.op = "refine_assignments" /\ cl.invalid >= 2) => cl.pc = "raised"

\* C18: after a valid refinement response every product of the batch whose
\* P_i key is absent from the response keeps its taxonomy id and its
\* category name.
C18_AbsentKeysKeepAssignment ==
    (cl.op = "refine_assignments" /\ cl.pc = "returned" /\ ~cl.fallback) =>
       \A j \in DOMAIN cl.segments :
          j # cl.response.k => cl.result[j] = cl.segments[j]

\* the positional indices an extraction response lists under category c
ListedUnder(c) == ResponseIds(cl.extraction[1], c)

\* C19: segment_products returns a result only for a response in which
\* every positional index 0..n-1 is listed exactly once across the
\* categories and no other index is listed.
C19_OnlyCompleteResponsesAccepted ==
    (cl.op = "segment_products" /\ cl.pc = "returned") =>
       /\ \A i \in 0..(Len(cl.products) - 1) :
             Cardinality({c \in CatNames : i \in ListedUnder(c)}) = 1
       /\ \A c \in CatNames : ListedUnder(c) \subseteq 0..(Len(cl.products) - 1)

\* C20: the assignments segment_products returns carry the product ids
\* products[i] of the positional indices i the response lists under its
\* categories (OUT_OF_SCOPE apart), never the indices themselves.
C20_AssignmentsCarryProductIds ==
    (cl.op = "segment_products" /\ cl.pc = "returned") =>
       LET listed == UNION {ListedUnder(c) : c \in CatNames \ {"OUT_OF_SCOPE"}}
           known == listed \cap (0..(Len(cl.products) - 1))
       IN {cl.result[j].product_id : j \in DOMAIN cl.result} =
             {cl.products[i + 1] : i \in known}

(***************************************************************************)
(* utils/batching.py as pure functions: the inputs are drawn in the        *)
(* initial state and each action applies one of the two functions.         *)
(***************************************************************************)
BatchInit ==
    /\ bat \in [pc : {"input"}, total_items : 1..MaxItems,
                target_batch_size : 1..MaxTarget, data : BatchInputs,
                sizes : {<<>>}, batches : {<<>>}]
    /\ cons = IdleCons
    /\ val = IdleVal

\* calculate_optimal_batch_sizes(total_items, target_batch_size)
calculate_optimal_batch_sizes_call ==
    /\ bat.pc = "input"
    /\ bat' = [bat EXCEPT
                 !.pc = "sizes",
                 !.sizes = calculate_optimal_batch_sizes(bat.total_items,
                                                         bat.target_batch_size)]
    /\ UNCHANGED <<runvars, limvars, stagevars, clientvars, cons, val>>

\* make_batches(data, target_batch_size, seed), sequence branch (111-133)
make_batches_call ==
    /\ bat.pc = "input"
    /\ bat' = [bat EXCEPT
                 !.pc = "batches",
                 !.batches = make_batches(NpArray(bat.data),
                                          bat.target_batch_size)]
    /\ UNCHANGED <<runvars, limvars, stagevars, clientvars, cons, val>>

BatchNext ==
    \/ calculate_optimal_batch_sizes_call
    \/ make_batches_call

SpecBatchInit ==
    RunInit /\ LimiterIdle /\ StageIdle /\ ClientIdle /\ BatchInit

SpecBatch == SpecBatchInit /\ [][BatchNext]_vars

(***************************************************************************)
(* Properties of the batching utilities (SpecBatch).                       *)
(***************************************************************************)
Ceil(n, b) == (n + b - 1) \div b

\* sizes sum to n, differ by at most 1 and never increase
EvenSizes(sizes, n) ==
    /\ SumSeq(sizes) = n
    /\ \A i, j \in DOMAIN sizes :
          /\ sizes[i] - sizes[j] <= 1
          /\ i <= j => sizes[i] >= sizes[j]

\* k is n / b rounded to the nearest integer, a half going to the even
\* neighbour, and at least 1
NearestOrOne(k, n, b) ==
    LET d == IF n >= k * b THEN n - k * b ELSE k * b - n
    IN \/ k = 1 /\ 2 * n < 3 * b
       \/ k >= 2 /\ (2 * d < b \/ (2 * d = b /\ k % 2 = 0))

Count(s, x) == Cardinality({i \in DOMAIN s : s[i] = x})

\* C16: the concatenation of the batches make_batches returns is a
\* permutation of its input.
C16_BatchesPermuteInput ==
    bat.pc = "batches" =>
       LET out == Flatten(bat.batches)
       IN /\ Len(out) = Len(bat.data)
          /\ \A x \in Range(out) \cup Range(bat.data) :
                Count(out, x) = Count(bat.data, x)

(***************************************************************************)
(* llm/product_segmentation_client.py : consolidate_taxonomy as pure       *)
(* functions.  A taxonomy record is its category_name; a synthetic id is   *)
(* <<prefix, i>> for the text prefix_i.                                    *)
(***************************************************************************)
MaxTaxonomies == 3
MaxResponseIds == 3

ConsolidationNames == {"A", "B"}
ConsolidationInputs ==
    UNION {[1..n -> ConsolidationNames] : n \in 2..MaxTaxonomies}

\* the ids a consolidation response may list, category after category: the
\* ids of the halves and one id with a foreign prefix
ResponseIdUniverse ==
    {<<p, i>> : p \in {"A", "B"}, i \in 0..(MaxTaxonomies - 1)} \cup {<<"X", 0>>}
ConsolidateResponses ==
    UNION {[1..n -> ResponseIdUniverse] : n \in 0..MaxResponseIds}

\* convert_group (lines 443-450): a dict keyed by category_name, filled in
\* the order of the group, so a later record replaces an earlier one of the
\* same name
convert_group(group, prefix) ==
    [name \in Range(group) |->
        LET i == CHOOSE j \in DOMAIN group :
                    /\ group[j] = name
                    /\ \A k \in DOMAIN group : group[k] = name => k <= j
        IN <<prefix, i - 1>>]

\* _prepare_taxonomies_for_consolidation (lines 429-452)
prepare_taxonomies_for_consolidation(taxonomies) ==
    LET mid == Len(taxonomies) \div 2
        tax_a == SubSeq(taxonomies, 1, mid)
        tax_b == SubSeq(taxonomies, mid + 1, Len(taxonomies))
    IN <<convert_group(tax_a, "A"), convert_group(tax_b, "B")>>

\* _parse_and_validate_consolidate_response (lines 613-693) on a response
\* that parses: `response` is the ids of its categories in order
parse_and_validate_consolidate_response(response, taxonomy_a, taxonomy_b) ==
    LET prefixed(i) == response[i][1] \in {"A", "B"}
        validation_errors ==
            \/ \E i \in DOMAIN response : ~prefixed(i)
            \/ \E i, j \in DOMAIN response :
                  i < j /\ prefixed(i) /\ response[i] = response[j]
        found_ids == {response[i] : i \in {j \in DOMAIN response : prefixed(j)}}
        expected_ids == {taxonomy_a[n] : n \in DOMAIN taxonomy_a}
                           \cup {taxonomy_b[n] : n \in DOMAIN taxonomy_b}
        missing_ids == expected_ids \ found_ids
        extra_ids == found_ids \ expected_ids
    IN ~(validation_errors \/ missing_ids # {} \/ extra_ids # {})

ConsolidateInit ==
    /\ bat = [pc |-> "idle", total_items |-> 0, target_batch_size |-> 0,
              data |-> <<>>, sizes |-> <<>>, batches |-> <<>>]
    /\ cons \in [pc : {"input"}, taxonomies : ConsolidationInputs,
                 taxonomy_a : {<<>>}, taxonomy_b : {<<>>},
                 response : {<<>>}, is_valid : {FALSE}]
    /\ val = IdleVal

\* consolidate_taxonomy, line 160
prepare_taxonomies_call ==
    /\ cons.pc = "input"
    /\ LET halves == prepare_taxonomies_for_consolidation(cons.taxonomies)
       IN cons' = [cons EXCEPT !.pc = "prepared",
                               !.taxonomy_a = halves[1],
                               !.taxonomy_b = halves[2]]
    /\ UNCHANGED <<runvars, limvars, stagevars, clientvars, bat, val>>

\* consolidate_taxonomy, lines 169-180: the LLM answers, the answer is checked
validate_consolidate_response_call(response) ==
    /\ cons.pc = "prepared"
    /\ cons' = [cons EXCEPT
                  !.pc = "validated",
                  !.response = response,
                  !.is_valid = parse_and_validate_consolidate_response(
                                   response, cons.taxonomy_a, cons.taxonomy_b)]
    /\ UNCHANGED <<runvars, limvars, stagevars, clientvars, bat, val>>

ConsolidateNext ==
    \/ prepare_taxonomies_call
    \/ \E response \in ConsolidateResponses :
          validate_consolidate_response_call(response)

SpecConsolidateInit ==
    /\ RunInit /\ shuffle_kind = "reverse" /\ LimiterIdle /\ StageIdle
    /\ ClientIdle /\ ConsolidateInit

SpecConsolidate == SpecConsolidateInit /\ [][ConsolidateNext]_vars

\* the synthetic ids of the input records by position: A_i for the first
\* half, B_j for the second
PositionalIds(taxonomies) ==
    LET mid == Len(taxonomies) \div 2
    IN {<<"A", i>> : i \in 0..(mid - 1)}
          \cup {<<"B", j>> : j \in 0..(Len(taxonomies) - mid - 1)}

RenderedIds(c) ==
    {c.taxonomy_a[n] : n \in DOMAIN c.taxonomy_a}
       \cup {c.taxonomy_b[n] : n \in DOMAIN c.taxonomy_b}

\* C27: every input taxonomy record has its own synthetic id in the rendered
\* halves, and an accepted consolidated output lists each of these ids
\* exactly once, so that no input taxonomy is dropped
C27_EveryInputKeepsItsId ==
    /\ cons.pc \in {"prepared", "validated"} =>
          RenderedIds(cons) = PositionalIds(cons.taxonomies)
    /\ (cons.pc = "validated" /\ cons.is_valid) =>
          \A id \in PositionalIds(cons.taxonomies) :
             Cardinality({i \in DOMAIN cons.response : cons.response[i] = id}) = 1

(***************************************************************************)
(* utils/refinement.py : parse_and_validate_refinement_response as a pure  *)
(* function of the response text, the batch's P_i and the valid S_j.       *)
(***************************************************************************)
MaxBatchProducts == 2
MaxSubcategories == 2

\* the response texts: keys P_0..P_n and values S_0..S_m reach one past the
\* largest batch and the largest taxonomy
RefinementTexts ==
    {[shape |-> "none", mapping |-> <<>>, segments |-> <<>>]}
    \cup {[shape |-> "mapping", mapping |-> f, segments |-> <<>>] :
             f \in UNION {[D -> 0..MaxSubcategories] :
                             D \in SUBSET (0..MaxBatchProducts)}}
    \cup {[shape |-> "segments", mapping |-> <<>>, segments |-> sq] :
             sq \in UNION {[1..n -> 1..(MaxSubcategories + 1)] :
                              n \in 0..(MaxBatchProducts + 1)}}

ValidateInit ==
    /\ bat = [pc |-> "idle", total_items |-> 0, target_batch_size |-> 0,
              data |-> <<>>, sizes |-> <<>>, batches |-> <<>>]
    /\ cons = IdleCons
    /\ \E text \in RefinementTexts, n \in 1..MaxBatchProducts,
          m \in 1..MaxSubcategories :
          val = [pc |-> "input", text |-> text,
                 batch_product_ids |-> 0..(n - 1),
                 valid_subcategory_ids |-> 0..(m - 1),
                 is_valid |-> FALSE, result |-> <<>>]

\* refine_assignments, lines 266 and 284: the response is validated
validate_refinement_response_call ==
    /\ val.pc = "input"
    /\ LET ok == parse_and_validate_refinement_response(
                     val.text, val.batch_product_ids,
                     val.valid_subcategory_ids)
       IN val' = [val EXCEPT
                    !.pc = "validated",
                    !.is_valid = ok,
                    !.result = IF ok THEN refinement_response_mapping(val.text)
                               ELSE <<>>]
    /\ UNCHANGED <<runvars, limvars, stagevars, clientvars, bat, cons>>

ValidateNext == validate_refinement_response_call

SpecValidateInit ==
    /\ RunInit /\ shuffle_kind = "reverse" /\ LimiterIdle /\ StageIdle
    /\ ClientIdle /\ ValidateInit

SpecValidate == SpecValidateInit /\ [][ValidateNext]_vars

\* C23: a response reported valid assigns only products of the batch, each
\* at most once, and only valid subcategories, whatever its shape
C23_ValidMeansKnownKeysAndValues ==
    (val.pc = "validated" /\ val.is_valid) =>
       \A prod_id \in DOMAIN val.result :
          /\ prod_id \in val.batch_product_ids
          /\ val.result[prod_id] \in val.valid_subcategory_ids

\* the invocations of _run_recursive a step starts
StartedInStep == {c \in Nodes : nodes[c] = "none" /\ nodes'[c] # "none"}

\* C30: execute terminates when every LLM call returns.  After a second
\* invalid response an invocation returns, raises StageProtocolError or
\* splits; a split starts two invocations on non-empty, strictly smaller
\* slices that make up the slice; and once execute has been called it
\* returns its result or raises StageProtocolError or
\* StageCallBudgetExceeded.
C30_ExecuteTerminates ==
    /\ [][\A n \in Nodes :
            nodes[n] = "validate2" =>
               /\ nodes'[n] \in {"validate2", "done", "protocol_error", "join"}
               /\ nodes'[n] = "join" =>
                     /\ Cardinality(StartedInStep) = 2
                     /\ \A c \in StartedInStep :
                           /\ SliceLen(c) >= 1
                           /\ SliceLen(c) < SliceLen(n)
                           /\ n[1] <= c[1] /\ c[2] <= n[2]
                     /\ \A c, d \in StartedInStep :
                           c # d => SliceLen(c) + SliceLen(d) = SliceLen(n)]_vars
    /\ (nodes[Root] # "none")
          ~> (nodes[Root] \in {"done", "protocol_error", "budget_exceeded"})

\* C30 witness: the whole input was split after two invalid responses, both
\* halves returned and execute returned the merged result
C30_Witness ==
    /\ nodes[Root] = "done"
    /\ Len(prompts[Root]) = 2
    /\ nodes[Left(Root)] = "done"
    /\ nodes[Right(Root)] = "done"

====
